---- MODULE Spec2Model ----
(***************************************************************************)
(* Model of the metrics primitives Counter (counter.go) and FloatCounter   *)
(* (floatcounter.go).  Goroutines call the methods of one Counter c and    *)
(* one FloatCounter fc; every access to shared memory is one step.         *)
(***************************************************************************)
EXTENDS Integers, Sequences, FiniteSets, TLC

\* ------------------------------------------------------------------ bounds
NumThreads == 2      \* goroutines calling the primitives
MaxCalls == 2        \* calls of the methods that write, and of marshalTo,
                     \* in one behaviour
MaxClock == 2        \* time.Now().Unix() returns 1..MaxClock

Threads == 1..NumThreads

\* Arguments the callers pass.
Deltas == {-1, 2}                      \* n of Counter.Add / Counter.AddInt64
FloatArgs == {1, 2}                    \* n of FloatCounter.Add / Sub / Set

\* ------------------------------------------------------------ uint64 words
\* A uint64 is four 16-bit limbs, least significant first, so that the
\* arithmetic wraps at exactly 2^64.
LimbBase == 65536
NumLimbs == 4

RECURSIVE NatLimbs(_, _)
NatLimbs(k, i) ==
    IF i > NumLimbs THEN <<>>
    ELSE <<k % LimbBase>> \o NatLimbs(k \div LimbBase, i + 1)

\* The uint64 whose value is the natural number k (k < 2^31).
FromNat(k) == NatLimbs(k, 1)

\* ^x : bitwise complement of a uint64.
Not64(x) == [i \in 1..NumLimbs |-> LimbBase - 1 - x[i]]

RECURSIVE AddLimbs(_, _, _, _)
AddLimbs(a, b, i, carry) ==
    IF i > NumLimbs THEN <<>>
    ELSE LET s == a[i] + b[i] + carry
         IN  <<s % LimbBase>> \o AddLimbs(a, b, i + 1, s \div LimbBase)

\* The sum atomic.AddUint64 stores: a + b, the carry out of bit 63 dropped.
AddUint64(a, b) == AddLimbs(a, b, 1, 0)

\* the conversion made through uint32: a negative n comes out below 2^32
Uint64_Through32(n) ==
    IF n >= 0 THEN FromNat(n)
    ELSE [i \in 1..NumLimbs |->
             IF i <= 2 THEN LimbBase - 1 - FromNat(-n - 1)[i] ELSE 0]

\* The conversion uint64(n) of a signed n: two's complement, -m = ^(m - 1).
Uint64(n) == IF n >= 0 THEN FromNat(n) ELSE Not64(FromNat(-n - 1))

Zero64 == FromNat(0)
MaxUint64 == Not64(Zero64)             \* ^uint64(0) = 2^64 - 1

SetArgs == {FromNat(7), MaxUint64}     \* n of Counter.Set

\* ------------------------------------------------------------- fmt.Fprintf
\* The verb %d of a uint64: the decimal digits, most significant first, found
\* by dividing by ten until nothing is left; "0" for zero; never a sign.
DecimalDigits == <<"0", "1", "2", "3", "4", "5", "6", "7", "8", "9">>

\* limbs i..NumLimbs of v, read as a number, modulo 10
RECURSIVE Rem10(_, _)
Rem10(v, i) ==
    IF i > NumLimbs THEN 0 ELSE (Rem10(v, i + 1) * LimbBase + v[i]) % 10

\* v \div 10, by long division from the most significant limb down
Div10(v) ==
    [i \in 1..NumLimbs |-> (Rem10(v, i + 1) * LimbBase + v[i]) \div 10]

RECURSIVE FormatDigits(_)
FormatDigits(v) ==
    IF v = Zero64 THEN ""
    ELSE FormatDigits(Div10(v)) \o DecimalDigits[Rem10(v, 1) + 1]

FormatUint(v) == IF v = Zero64 THEN "0" ELSE FormatDigits(v)

\* decimal digits of a natural number k
RECURSIVE FormatNat(_)
FormatNat(k) ==
    IF k < 10 THEN DecimalDigits[k + 1]
    ELSE FormatNat(k \div 10) \o DecimalDigits[(k % 10) + 1]

\* The verb %g of a float64 whose value is an integer v, |v| < 10^6: the
\* shortest decimal that gives v back, which is the integer's digits, after a
\* minus sign when v < 0.
FormatG(v) == IF v < 0 THEN "-" \o FormatNat(0 - v) ELSE FormatNat(v)

\* Fprintf with the value printed as the signed int64(v)
SprintfD_Signed(prefix, v) ==
    prefix \o " "
    \o (IF v[NumLimbs] >= LimbBase \div 2
        THEN "-" \o FormatUint(AddUint64(Not64(v), FromNat(1)))
        ELSE FormatUint(v))
    \o "\n"

\* fmt.Fprintf(w, "%s %d\n", prefix, v): what is written to w
SprintfD(prefix, v) == prefix \o " " \o FormatUint(v) \o "\n"
\* fmt.Fprintf(w, "%s %g\n", prefix, v)
SprintfG(prefix, v) == prefix \o " " \o FormatG(v) \o "\n"

\* ------------------------------------------------------------------- state
VARIABLES
    inst,               \* the instance the goroutines share: "c" or "fc"
    c_n,                \* Counter.n
    c_lastWriteTime,    \* Counter.lastWriteTime
    fc_mu,              \* FloatCounter.mu : 0 unlocked, 1 locked
    fc_n,               \* FloatCounter.n (an integer-valued float64)
    fc_lastWriteTime,   \* FloatCounter.lastWriteTime
    now,                \* the latest second time.Now().Unix() has returned
    pc,                 \* pc[t]: where goroutine t is ("idle": in no call)
    arg,                \* arg[t]: the float argument of t's call
    tmp,                \* tmp[t]: fc.n as t loaded it
    tnow,               \* tnow[t]: the clock reading t took (0: none yet)
    ret,                \* what the step just taken returned: <<"n", v>> from
                        \* Get, <<"lastWriteTime", v>> from getLastWriteTime,
                        \* else <<>>
    \* history of the run, read by the properties only
    seen,               \* what getLastWriteTime returned last
    solo,               \* solo[t]: no other goroutine ran since t's call started
    calls,              \* calls started of the methods that write
    called,             \* kinds of the writing methods called so far
    callers,            \* goroutines that called a method so far
    sumDeltas,          \* the signed deltas applied to c.n since the last
                        \* Set, summed; for fc, the signed deltas the Add and
                        \* Sub calls started so far ask for, summed (0 once
                        \* Set is called)
    lastSet,            \* <<n>> when the last write to the value was Set(n)
    stable              \* fc.n as the last completed critical section left it

locals == <<pc, arg, tmp, tnow>>
history == <<seen, solo, calls, called, callers, sumDeltas, lastSet,
             stable>>
counter == <<c_n, c_lastWriteTime>>
floatcounter == <<fc_mu, fc_n, fc_lastWriteTime>>
vars == <<inst, counter, floatcounter, now, locals, ret, history>>

NoSet == <<>>                          \* lastSet: the last write was no Set
NotSeen == 0 - 1                         \* seen: getLastWriteTime not yet called

\* The zero values of Counter and FloatCounter, the clock running.  A run
\* exercises one instance: the two types share no state.
Init ==
    /\ inst \in {"c", "fc"}
    /\ c_n = Zero64
    /\ c_lastWriteTime = 0
    /\ fc_mu = 0
    /\ fc_n = 0
    /\ fc_lastWriteTime = 0
    /\ now = 1
    /\ pc = [t \in Threads |-> "idle"]
    /\ arg = [t \in Threads |-> 0]
    /\ tmp = [t \in Threads |-> 0]
    /\ tnow = [t \in Threads |-> 0]
    /\ ret = <<>>
    /\ seen = NotSeen
    /\ solo = [t \in Threads |-> FALSE]
    /\ calls = 0
    /\ called = {}
    /\ callers = {}
    /\ sumDeltas = 0
    /\ lastSet = NoSet
    /\ stable = 0

\* The kind of method m, for the methods that write: Inc; Set; Get of a
\* FloatCounter; an add (Dec, Add, AddInt64, Sub).  Counter.Get and
\* getLastWriteTime write nothing and have no kind.
Kind(m) ==
    CASE m = "c.Inc" -> {"Inc"}
      [] m \in {"c.Set", "fc.Set"} -> {"Set"}
      [] m = "fc.Get" -> {"Get"}
      [] m \in {"c.Get", "c.getLastWriteTime", "fc.getLastWriteTime"} -> {}
      [] OTHER -> {"add"}

OthersIdle(t) == \A u \in Threads \ {t} : pc[u] = "idle"

\* Goroutine t may start a call.  Goroutines are interchangeable, so they
\* make their first calls in the order of their numbers.
MayCall(t, o) ==
    /\ inst = o
    /\ pc[t] = "idle"
    /\ t = 1 \/ (t - 1) \in callers

\* Goroutine t calls method m of instance o and goes to its first label.
Enter(t, o, m, next, a) ==
    /\ MayCall(t, o)
    /\ calls < MaxCalls
    /\ calls' = calls + 1
    /\ pc' = [pc EXCEPT ![t] = next]
    /\ arg' = [arg EXCEPT ![t] = a]
    /\ solo' = [u \in Threads |-> u = t /\ OthersIdle(t)]
    /\ called' = called \cup Kind(m)
    /\ callers' = callers \cup {t}
    /\ ret' = <<>>
    /\ UNCHANGED inst

\* Goroutine t returns r (<<>>: nothing): its locals die.
Return(t, from, r) ==
    /\ pc[t] = from
    /\ pc' = [pc EXCEPT ![t] = "idle"]
    /\ arg' = [arg EXCEPT ![t] = 0]
    /\ tmp' = [tmp EXCEPT ![t] = 0]
    /\ tnow' = [tnow EXCEPT ![t] = 0]
    /\ solo' = [solo EXCEPT ![t] = FALSE]
    /\ ret' = r
    /\ UNCHANGED <<inst, calls, called, callers>>

\* Goroutine t calls method m of instance o, which returns r in one step.
OneStep(t, o, m, r) ==
    /\ MayCall(t, o)
    /\ solo' = [u \in Threads |-> FALSE]
    /\ called' = called \cup Kind(m)
    /\ callers' = callers \cup {t}
    /\ ret' = r
    /\ UNCHANGED <<inst, locals>>

\* Goroutine t moves from label from to label to.
Goto(t, from, to) ==
    /\ pc[t] = from
    /\ pc' = [pc EXCEPT ![t] = to]
    /\ ret' = <<>>

\* time.Now().Unix(), evaluated before the store it is the argument of.
\* The clock is read here and nowhere else: it returns any second not before
\* the last one read, and no later than MaxClock.
ReadClock(t, from, to) ==
    /\ Goto(t, from, to)
    /\ \E s \in now..MaxClock :
          /\ now' = s
          /\ tnow' = [tnow EXCEPT ![t] = s]
    /\ UNCHANGED <<inst, counter, floatcounter, arg, tmp, history>>

\* ----------------------------------------------------------------- Counter
\* an add that is a load, a sum and a store, with a Set come in between: the
\* sum is made from the value the Set replaced
AtomicAddN_Stale(d) ==
    c_n' = AddUint64(IF lastSet # NoSet THEN Zero64 ELSE c_n, d)

\* atomic.AddUint64(&c.n, d)
AtomicAddN(d) == c_n' = AddUint64(c_n, d)

\* Inc that stores the time as Dec, Add and Set do
Inc_Stamped(t) ==
    /\ OneStep(t, "c", "c.Inc", <<>>)
    /\ calls < MaxCalls
    /\ calls' = calls + 1
    /\ AtomicAddN(FromNat(1))
    /\ c_lastWriteTime' = now
    /\ sumDeltas' = sumDeltas + 1
    /\ lastSet' = NoSet
    /\ UNCHANGED <<floatcounter, now, seen, stable>>

\* Counter.Inc: atomic.AddUint64(&c.n, 1)
Inc(t) ==
    /\ OneStep(t, "c", "c.Inc", <<>>)
    /\ calls < MaxCalls
    /\ calls' = calls + 1
    /\ AtomicAddN(FromNat(1))
    /\ sumDeltas' = sumDeltas + 1
    /\ lastSet' = NoSet
    /\ UNCHANGED <<c_lastWriteTime, floatcounter, now, seen, stable>>

\* AddStep with c.n += d in place of the atomic add: the update is lost when
\* another goroutine is at work on the counter.
AddStep_LostUpdate(t, m, next, d, n) ==
    /\ Enter(t, "c", m, next, 0)
    /\ c_n' = IF OthersIdle(t) THEN AddUint64(c_n, d) ELSE c_n
    /\ sumDeltas' = sumDeltas + n
    /\ lastSet' = NoSet
    /\ UNCHANGED <<c_lastWriteTime, floatcounter, now, tmp, tnow, seen, stable>>

\* Dec, Add, AddInt64 with the two statements the other way round: the time
\* is stored first, the add is yet to come
AddStep_StampFirst(t, m, next, d, n) ==
    /\ Enter(t, "c", m, next, 0)
    /\ c_lastWriteTime' = now
    /\ sumDeltas' = sumDeltas + n
    /\ lastSet' = NoSet
    /\ UNCHANGED <<c_n, floatcounter, now, tmp, tnow, seen, stable>>

\* First line of Dec, Add, AddInt64: atomic.AddUint64(&c.n, d), d = uint64(n)
AddStep(t, m, next, d, n) ==
    /\ Enter(t, "c", m, next, 0)
    /\ AtomicAddN(d)
    /\ sumDeltas' = sumDeltas + n
    /\ lastSet' = NoSet
    /\ UNCHANGED <<c_lastWriteTime, floatcounter, now, tmp, tnow, seen,
                   stable>>

\* atomic.StoreInt64(&c.lastWriteTime, <the reading>), and the method returns
StoreLastWriteTime(t, from) ==
    /\ Return(t, from, <<>>)
    /\ c_lastWriteTime' = tnow[t]
    /\ UNCHANGED <<c_n, floatcounter, now, seen, sumDeltas, lastSet,
                   stable>>

\* DecDelta as ^uint32(0) widened: 2^32 - 1
DecDelta_32 == [i \in 1..NumLimbs |-> IF i <= 2 THEN LimbBase - 1 ELSE 0]

\* ^uint64(0), what Dec adds
DecDelta == Not64(FromNat(0))

\* Counter.Dec, line 39: atomic.AddUint64(&c.n, ^uint64(0))
DecAdd(t) == AddStep(t, "c.Dec", "dec_now", DecDelta, -1)
\* Counter.Dec, line 40
DecNow(t) == ReadClock(t, "dec_now", "dec_store")
DecStore(t) == StoreLastWriteTime(t, "dec_store")

\* Counter.Add, line 45: atomic.AddUint64(&c.n, uint64(n))
AddAdd(t, n) == AddStep(t, "c.Add", "add_now", Uint64(n), n)
\* Counter.Add, line 46
AddNow(t) == ReadClock(t, "add_now", "add_store")
AddStore(t) == StoreLastWriteTime(t, "add_store")

\* Counter.AddInt64, line 51: atomic.AddUint64(&c.n, uint64(n))
AddInt64Add(t, n) == AddStep(t, "c.AddInt64", "addint64_now", Uint64(n), n)
\* Counter.AddInt64, line 52
AddInt64Now(t) == ReadClock(t, "addint64_now", "addint64_store")
AddInt64Store(t) == StoreLastWriteTime(t, "addint64_store")

\* Get that stores the time as FloatCounter.Get does
Get_Stamped(t) ==
    /\ OneStep(t, "c", "c.Get", <<"n", c_n>>)
    /\ c_lastWriteTime' = now
    /\ UNCHANGED <<c_n, calls, floatcounter, now, seen, sumDeltas, lastSet,
                   stable>>

\* Counter.Get: return atomic.LoadUint64(&c.n)
Get(t) ==
    /\ OneStep(t, "c", "c.Get", <<"n", c_n>>)
    /\ UNCHANGED calls
    /\ UNCHANGED <<counter, floatcounter, now, seen, sumDeltas, lastSet,
                   stable>>

\* Set with atomic.AddUint64 in place of atomic.StoreUint64
SetStoreN_Add(t, n) ==
    /\ Enter(t, "c", "c.Set", "set_now", 0)
    /\ c_n' = AddUint64(c_n, n)
    /\ lastSet' = <<n>>
    /\ sumDeltas' = 0
    /\ UNCHANGED <<c_lastWriteTime, floatcounter, now, tmp, tnow, seen, stable>>

\* Counter.Set, line 62: atomic.StoreUint64(&c.n, n)
SetStoreN(t, n) ==
    /\ Enter(t, "c", "c.Set", "set_now", 0)
    /\ c_n' = n
    /\ lastSet' = <<n>>
    /\ sumDeltas' = 0
    /\ UNCHANGED <<c_lastWriteTime, floatcounter, now, tmp, tnow, seen,
                   stable>>

\* Counter.Set, line 63
SetNow(t) == ReadClock(t, "set_now", "set_store")

\* Set that resets lastWriteTime instead of storing the reading
SetStore_Reset(t) ==
    /\ Return(t, "set_store", <<>>)
    /\ c_lastWriteTime' = 0
    /\ UNCHANGED <<c_n, floatcounter, now, seen, sumDeltas, lastSet, stable>>

SetStore(t) == StoreLastWriteTime(t, "set_store")

\* Counter.getLastWriteTime: return atomic.LoadInt64(&c.lastWriteTime)
GetLastWriteTime(t) ==
    /\ OneStep(t, "c", "c.getLastWriteTime", <<"lastWriteTime", c_lastWriteTime>>)
    /\ UNCHANGED calls
    /\ seen' = c_lastWriteTime
    /\ UNCHANGED <<counter, floatcounter, now, sumDeltas, lastSet,
                   stable>>

CounterNext ==
    \E t \in Threads :
        \/ Inc(t)
        \/ DecAdd(t) \/ DecNow(t) \/ DecStore(t)
        \/ \E n \in Deltas : AddAdd(t, n)
        \/ AddNow(t) \/ AddStore(t)
        \/ \E n \in Deltas : AddInt64Add(t, n)
        \/ AddInt64Now(t) \/ AddInt64Store(t)
        \/ Get(t)
        \/ \E n \in SetArgs : SetStoreN(t, n)
        \/ SetNow(t) \/ SetStore(t)
        \/ GetLastWriteTime(t)

\* ------------------------------------------------------------ FloatCounter
\* Lock that takes the mutex without waiting for it
Lock_NoWait(t, from, to) ==
    /\ Goto(t, from, to)
    /\ fc_mu' = 1
    /\ UNCHANGED <<inst, counter, fc_n, fc_lastWriteTime, now, arg, tmp, tnow,
                   history>>

\* fc.mu.Lock(): waits until the mutex is free, then takes it
Lock(t, from, to) ==
    /\ Goto(t, from, to)
    /\ fc_mu = 0
    /\ fc_mu' = 1
    /\ UNCHANGED <<inst, counter, fc_n, fc_lastWriteTime, now, arg, tmp, tnow,
                   history>>

\* the read of fc.n
LoadN(t, from, to) ==
    /\ Goto(t, from, to)
    /\ tmp' = [tmp EXCEPT ![t] = fc_n]
    /\ UNCHANGED <<inst, counter, floatcounter, now, arg, tnow, history>>

\* the write of fc.n; ls is what the write makes of lastSet
StoreN(t, from, to, v, ls) ==
    /\ Goto(t, from, to)
    /\ fc_n' = v
    /\ lastSet' = ls
    /\ UNCHANGED <<inst, counter, fc_mu, fc_lastWriteTime, now, arg, tmp, tnow,
                   seen, solo, calls, called, callers, sumDeltas,
                   stable>>

\* the store of a reading taken before the lock was: any second up to the
\* one the clock gives under the lock
StoreTs_Stale(t, from, to) ==
    /\ Goto(t, from, to)
    /\ fc_lastWriteTime' \in 1..tnow[t]
    /\ UNCHANGED <<inst, counter, fc_mu, fc_n, now, arg, tmp, tnow, history>>

\* fc.lastWriteTime = <the reading>: a plain store
StoreTs(t, from, to) ==
    /\ Goto(t, from, to)
    /\ fc_lastWriteTime' = tnow[t]
    /\ UNCHANGED <<inst, counter, fc_mu, fc_n, now, arg, tmp, tnow, history>>

\* a return that leaves the mutex locked
Unlock_KeepsMu(t, from) ==
    /\ Return(t, from, <<>>)
    /\ stable' = fc_n
    /\ UNCHANGED <<counter, floatcounter, now, seen, sumDeltas, lastSet>>

\* fc.mu.Unlock(), and the method returns
Unlock(t, from) ==
    /\ Return(t, from, <<>>)
    /\ fc_mu' = 0
    /\ stable' = fc_n
    /\ UNCHANGED <<counter, fc_n, fc_lastWriteTime, now, seen, sumDeltas,
                   lastSet>>

\* The call of a FloatCounter method that begins with fc.mu.Lock(); k is the
\* signed delta the call asks for.
FloatCall(t, m, next, n, k) ==
    /\ Enter(t, "fc", m, next, n)
    /\ sumDeltas' = (IF "Set" \in called' THEN 0 ELSE sumDeltas + k)
    /\ UNCHANGED <<counter, floatcounter, now, tmp, tnow, seen, lastSet,
                   stable>>

\* FloatCounter.Add, lines 35-40
FloatAdd(t, n) == FloatCall(t, "fc.Add", "fadd_lock", n, n)

\* Add that goes on to fc.n += n without taking the lock
FloatAddLock_NoLock(t) ==
    /\ Goto(t, "fadd_lock", "fadd_load")
    /\ UNCHANGED <<inst, counter, floatcounter, now, arg, tmp, tnow, history>>

FloatAddLock(t) == Lock(t, "fadd_lock", "fadd_load")
FloatAddLoad(t) == LoadN(t, "fadd_load", "fadd_store")
FloatAddStore(t) == StoreN(t, "fadd_store", "fadd_now", tmp[t] + arg[t], NoSet)
FloatAddNow(t) == ReadClock(t, "fadd_now", "fadd_ts")
FloatAddTs(t) == StoreTs(t, "fadd_ts", "fadd_unlock")
FloatAddUnlock(t) == Unlock(t, "fadd_unlock")

\* FloatCounter.Sub, lines 43-48
FloatSub(t, n) == FloatCall(t, "fc.Sub", "fsub_lock", n, 0 - n)
FloatSubLock(t) == Lock(t, "fsub_lock", "fsub_load")
FloatSubLoad(t) == LoadN(t, "fsub_load", "fsub_store")
FloatSubStore(t) == StoreN(t, "fsub_store", "fsub_now", tmp[t] - arg[t], NoSet)
FloatSubNow(t) == ReadClock(t, "fsub_now", "fsub_ts")
FloatSubTs(t) == StoreTs(t, "fsub_ts", "fsub_unlock")
FloatSubUnlock(t) == Unlock(t, "fsub_unlock")

\* FloatCounter.Get, lines 51-57
FloatGet(t) == FloatCall(t, "fc.Get", "fget_lock", 0, 0)

\* Get that reads fc.n without taking the lock
FloatGetLock_NoLock(t) ==
    /\ Goto(t, "fget_lock", "fget_load")
    /\ UNCHANGED <<inst, counter, floatcounter, now, arg, tmp, tnow, history>>

FloatGetLock(t) == Lock(t, "fget_lock", "fget_load")
FloatGetLoad(t) == LoadN(t, "fget_load", "fget_now")
FloatGetNow(t) == ReadClock(t, "fget_now", "fget_ts")

\* Get that leaves lastWriteTime alone, as Counter.Get does
FloatGetTs_Skip(t) ==
    /\ Goto(t, "fget_ts", "fget_unlock")
    /\ UNCHANGED <<inst, counter, floatcounter, now, arg, tmp, tnow, history>>

FloatGetTs(t) == StoreTs(t, "fget_ts", "fget_unlock")
\* lines 55-56: fc.mu.Unlock(); return n
FloatGetUnlock(t) ==
    /\ Return(t, "fget_unlock", <<"n", tmp[t]>>)
    /\ fc_mu' = 0
    /\ stable' = fc_n
    /\ UNCHANGED <<counter, fc_n, fc_lastWriteTime, now, seen, sumDeltas,
                   lastSet>>

\* FloatCounter.Set, lines 60-65
FloatSet(t, n) == FloatCall(t, "fc.Set", "fset_lock", n, 0)
FloatSetLock(t) == Lock(t, "fset_lock", "fset_store")
FloatSetStore(t) == StoreN(t, "fset_store", "fset_now", arg[t], <<arg[t]>>)
FloatSetNow(t) == ReadClock(t, "fset_now", "fset_ts")
FloatSetTs(t) == StoreTs(t, "fset_ts", "fset_unlock")
FloatSetUnlock(t) == Unlock(t, "fset_unlock")

\* getLastWriteTime that reads under the mutex, as Get does
FloatGetLastWriteTime_Locked(t) ==
    /\ fc_mu = 0
    /\ OneStep(t, "fc", "fc.getLastWriteTime", <<"lastWriteTime", fc_lastWriteTime>>)
    /\ UNCHANGED calls
    /\ seen' = fc_lastWriteTime
    /\ UNCHANGED <<counter, floatcounter, now, sumDeltas, lastSet, stable>>

\* FloatCounter.getLastWriteTime: return atomic.LoadInt64(&c.lastWriteTime).
\* The load takes no lock: it reads what is in memory, before or after the
\* plain store of a goroutine that holds mu.
FloatGetLastWriteTime(t) ==
    /\ OneStep(t, "fc", "fc.getLastWriteTime", <<"lastWriteTime", fc_lastWriteTime>>)
    /\ UNCHANGED calls
    /\ seen' = fc_lastWriteTime
    /\ UNCHANGED <<counter, floatcounter, now, sumDeltas, lastSet,
                   stable>>

FloatNext ==
    \E t \in Threads :
        \/ \E n \in FloatArgs : FloatAdd(t, n)
        \/ FloatAddLock(t) \/ FloatAddLoad(t) \/ FloatAddStore(t)
        \/ FloatAddNow(t) \/ FloatAddTs(t) \/ FloatAddUnlock(t)
        \/ \E n \in FloatArgs : FloatSub(t, n)
        \/ FloatSubLock(t) \/ FloatSubLoad(t) \/ FloatSubStore(t)
        \/ FloatSubNow(t) \/ FloatSubTs(t) \/ FloatSubUnlock(t)
        \/ FloatGet(t)
        \/ FloatGetLock(t) \/ FloatGetLoad(t)
        \/ FloatGetNow(t) \/ FloatGetTs(t) \/ FloatGetUnlock(t)
        \/ \E n \in FloatArgs : FloatSet(t, n)
        \/ FloatSetLock(t) \/ FloatSetStore(t)
        \/ FloatSetNow(t) \/ FloatSetTs(t) \/ FloatSetUnlock(t)
        \/ FloatGetLastWriteTime(t)

Next == CounterNext \/ FloatNext

Spec == Init /\ [][Next]_vars

\* ---------------------------------------------------------------- scheduling
\* The steps goroutine t takes inside a Counter method it has called.
CounterStep(t) ==
    \/ DecNow(t) \/ DecStore(t)
    \/ AddNow(t) \/ AddStore(t)
    \/ AddInt64Now(t) \/ AddInt64Store(t)
    \/ SetNow(t) \/ SetStore(t)

\* fc.mu.Lock() of the FloatCounter method t has called.
FloatLockStep(t) ==
    FloatAddLock(t) \/ FloatSubLock(t) \/ FloatGetLock(t) \/ FloatSetLock(t)

\* The steps t takes while it holds fc.mu.
FloatStep(t) ==
    \/ FloatAddLoad(t) \/ FloatAddStore(t)
    \/ FloatAddNow(t) \/ FloatAddTs(t) \/ FloatAddUnlock(t)
    \/ FloatSubLoad(t) \/ FloatSubStore(t)
    \/ FloatSubNow(t) \/ FloatSubTs(t) \/ FloatSubUnlock(t)
    \/ FloatGetLoad(t) \/ FloatGetNow(t) \/ FloatGetTs(t) \/ FloatGetUnlock(t)
    \/ FloatSetStore(t) \/ FloatSetNow(t) \/ FloatSetTs(t) \/ FloatSetUnlock(t)

\* The Go scheduler runs every runnable goroutine, so a goroutine inside a
\* method takes its next step.  sync.Mutex hands the lock to a goroutine that
\* has waited long (starvation mode), so a waiter that finds the mutex free
\* again and again gets it.  Whether a goroutine calls a method at all is up
\* to the caller: no fairness on the calls.
Fairness ==
    \A t \in Threads :
        /\ WF_vars(CounterStep(t))
        /\ WF_vars(FloatStep(t))
        /\ SF_vars(FloatLockStep(t))

FairSpec == Spec /\ Fairness

\* --------------------------------------------------------------- marshalTo
\* marshalTo touches the instance only through Get, and its output goes to w,
\* which no method reads.  It is modelled apart from Next, from instances in
\* states the methods can have left them in, with goroutines that write the
\* instance meanwhile.
Prefixes == {"foo", "m"}               \* prefix of marshalTo

\* values of c.n the marshalled Counter starts from: 0, 9, 42, 2^16 - 1,
\* 2^63, 2^64 - 1
MarshalValues ==
    {Zero64, FromNat(9), FromNat(42), FromNat(LimbBase - 1),
     [i \in 1..NumLimbs |-> IF i = NumLimbs THEN LimbBase \div 2 ELSE 0],
     MaxUint64}

\* values of fc.n the marshalled FloatCounter starts from
FloatValues == {0, 3, 0 - 2}

\* Goroutine t calls marshalTo(prefix, w) of instance o.
BeginMarshal(t, o, next, prefix) ==
    /\ MayCall(t, o)
    /\ pc' = [pc EXCEPT ![t] = next]
    /\ arg' = [arg EXCEPT ![t] = prefix]
    /\ solo' = [u \in Threads |-> u = t /\ OthersIdle(t)]
    /\ calls < MaxCalls
    /\ calls' = calls + 1
    /\ called' = called \cup {"marshalTo"}
    /\ callers' = callers \cup {t}
    /\ ret' = <<>>
    /\ UNCHANGED inst

\* Counter.marshalTo, line 72: v := c.Get()
MarshalGet(t, prefix) ==
    /\ BeginMarshal(t, "c", "marshal_fmt", prefix)
    /\ tmp' = [tmp EXCEPT ![t] = c_n]
    /\ UNCHANGED <<counter, floatcounter, now, tnow, seen, sumDeltas, lastSet,
                   stable>>

\* Counter.marshalTo, line 73: fmt.Fprintf(w, "%s %d\n", prefix, v).
\* ret is <<"w", what was written to w>>.
MarshalFmt(t) ==
    /\ Return(t, "marshal_fmt", <<"w", SprintfD(arg[t], tmp[t])>>)
    /\ UNCHANGED <<counter, floatcounter, now, seen, sumDeltas, lastSet,
                   stable>>

\* FloatCounter.marshalTo, line 69: v := fc.Get(), statement by statement
FloatMarshal(t, prefix) ==
    /\ BeginMarshal(t, "fc", "fmar_lock", prefix)
    /\ UNCHANGED <<counter, floatcounter, now, tmp, tnow, seen, sumDeltas,
                   lastSet, stable>>
FloatMarshalLock(t) == Lock(t, "fmar_lock", "fmar_load")
FloatMarshalLoad(t) == LoadN(t, "fmar_load", "fmar_now")
FloatMarshalNow(t) == ReadClock(t, "fmar_now", "fmar_ts")

\* marshalTo that reads fc.n as Counter.Get reads c.n, storing no time
FloatMarshalTs_Skip(t) ==
    /\ Goto(t, "fmar_ts", "fmar_unlock")
    /\ UNCHANGED <<inst, counter, floatcounter, now, arg, tmp, tnow, history>>

FloatMarshalTs(t) == StoreTs(t, "fmar_ts", "fmar_unlock")
\* fc.mu.Unlock() of Get; Get returns n to marshalTo
FloatMarshalUnlock(t) ==
    /\ Goto(t, "fmar_unlock", "fmar_fmt")
    /\ fc_mu' = 0
    /\ stable' = fc_n
    /\ UNCHANGED <<inst, counter, fc_n, fc_lastWriteTime, now, arg, tmp, tnow,
                   seen, solo, calls, called, callers, sumDeltas, lastSet>>
\* FloatCounter.marshalTo, line 70: fmt.Fprintf(w, "%s %g\n", prefix, v)
FloatMarshalFmt(t) ==
    /\ Return(t, "fmar_fmt", <<"w", SprintfG(arg[t], tmp[t])>>)
    /\ UNCHANGED <<counter, floatcounter, now, seen, sumDeltas, lastSet,
                   stable>>

\* An instance as earlier calls left it, no call under way.  seen is its
\* lastWriteTime, as getLastWriteTime returned it before the run; the other
\* history variables record the calls of the run.
MarshalInit ==
    /\ inst \in {"c", "fc"}
    /\ c_n \in (IF inst = "c" THEN MarshalValues ELSE {Zero64})
    /\ c_lastWriteTime \in (IF inst = "c" THEN {0, 1} ELSE {0})
    /\ fc_mu = 0
    /\ fc_n \in (IF inst = "fc" THEN FloatValues ELSE {0})
    /\ fc_lastWriteTime \in (IF inst = "fc" THEN {0, 1} ELSE {0})
    /\ now = 1
    /\ pc = [t \in Threads |-> "idle"]
    /\ arg = [t \in Threads |-> 0]
    /\ tmp = [t \in Threads |-> 0]
    /\ tnow = [t \in Threads |-> 0]
    /\ ret = <<>>
    /\ seen = (IF inst = "c" THEN c_lastWriteTime ELSE fc_lastWriteTime)
    /\ solo = [t \in Threads |-> FALSE]
    /\ calls = 0
    /\ called = {}
    /\ callers = {}
    /\ sumDeltas = 0
    /\ lastSet = NoSet
    /\ stable = fc_n

MarshalNext ==
    \E t \in Threads :
        \/ \E p \in Prefixes : MarshalGet(t, p)
        \/ MarshalFmt(t)
        \/ Inc(t)
        \/ DecAdd(t) \/ DecNow(t) \/ DecStore(t)
        \/ \E p \in Prefixes : FloatMarshal(t, p)
        \/ FloatMarshalLock(t) \/ FloatMarshalLoad(t) \/ FloatMarshalNow(t)
        \/ FloatMarshalTs(t) \/ FloatMarshalUnlock(t) \/ FloatMarshalFmt(t)
        \/ \E n \in FloatArgs : FloatAdd(t, n)
        \/ FloatAddLock(t) \/ FloatAddLoad(t) \/ FloatAddStore(t)
        \/ FloatAddNow(t) \/ FloatAddTs(t) \/ FloatAddUnlock(t)

MarshalSpec == MarshalInit /\ [][MarshalNext]_vars

\* ================================================================== claims
Quiescent == \A t \in Threads : pc[t] = "idle"

\* v is k modulo 2^64, for an integer k with -2^16 < k < 2^16
EqualsMod64(v, k) ==
    IF k >= 0
    THEN v = <<k, 0, 0, 0>>
    ELSE v = <<65536 + k, 65535, 65535, 65535>>

\* (v - 1) modulo 2^64, by borrowing
Pred64(v) ==
    IF v[1] > 0 THEN <<v[1] - 1, v[2], v[3], v[4]>>
    ELSE IF v[2] > 0 THEN <<65535, v[2] - 1, v[3], v[4]>>
    ELSE IF v[3] > 0 THEN <<65535, 65535, v[3] - 1, v[4]>>
    ELSE IF v[4] > 0 THEN <<65535, 65535, 65535, v[4] - 1>>
    ELSE <<65535, 65535, 65535, 65535>>

\* (v + 1) modulo 2^64, by carrying
Succ64(v) ==
    IF v[1] < 65535 THEN <<v[1] + 1, v[2], v[3], v[4]>>
    ELSE IF v[2] < 65535 THEN <<0, v[2] + 1, v[3], v[4]>>
    ELSE IF v[3] < 65535 THEN <<0, 0, v[3] + 1, v[4]>>
    ELSE IF v[4] < 65535 THEN <<0, 0, 0, v[4] + 1>>
    ELSE <<0, 0, 0, 0>>

\* Labels of a goroutine that has taken fc.mu and not released it.
HoldsMu == {"fadd_load", "fadd_store", "fadd_now", "fadd_ts", "fadd_unlock",
            "fsub_load", "fsub_store", "fsub_now", "fsub_ts", "fsub_unlock",
            "fget_load", "fget_now", "fget_ts", "fget_unlock",
            "fset_store", "fset_now", "fset_ts", "fset_unlock"}
\* Labels of a goroutine waiting in fc.mu.Lock().
WaitsMu == {"fadd_lock", "fsub_lock", "fget_lock", "fset_lock"}
\* Labels of a goroutine inside FloatCounter.Get.
InFloatGet == {"fget_lock", "fget_load", "fget_now", "fget_ts", "fget_unlock"}
\* Labels of a goroutine that has read fc.n in Get and not yet returned it.
HasReadN == {"fget_now", "fget_ts", "fget_unlock"}

\* Labels of a goroutine inside Dec, Add, AddInt64 or Set of a Counter.
InCounterOp == {"dec_now", "dec_store", "add_now", "add_store",
                "addint64_now", "addint64_store", "set_now", "set_store"}
\* Labels of a goroutine at fc.mu.Unlock().
AtUnlock == {"fadd_unlock", "fsub_unlock", "fget_unlock", "fset_unlock"}
\* The steps a goroutine at label l of a Counter method has left to take.
StepsLeft(l) ==
    CASE l \in {"dec_now", "add_now", "addint64_now", "set_now"} -> 2
      [] l \in {"dec_store", "add_store", "addint64_store", "set_store"} -> 1
      [] OTHER -> 0

\* C1: as long as Set has not been called, c.n is the sum of the signed
\* deltas of the Inc, Dec, Add and AddInt64 calls made, modulo 2^64, under
\* every interleaving; a Get that returns then returns that value.
C1_NoIncrementLost ==
    (inst = "c" /\ "Set" \notin called) =>
        /\ EqualsMod64(c_n, sumDeltas)
        /\ (ret # <<>> /\ ret[1] = "n") => ret = <<"n", c_n>>

C1_Witness ==
    /\ inst = "c" /\ "Set" \notin called /\ Quiescent
    /\ calls = MaxCalls /\ Cardinality(callers) >= 2
    /\ sumDeltas < 0
    /\ ret = <<"n", c_n>>

\* C2: the value a FloatCounter.Get has read, and the value it returns, is
\* fc.n as the last completed critical section left it (0 when there was
\* none): never the value of a critical section still under way.
C2_GetReadsCommitted ==
    inst = "fc" =>
        /\ \A t \in Threads : pc[t] \in HasReadN => tmp[t] = stable
        /\ (ret # <<>> /\ ret[1] = "n") => ret = <<"n", stable>>

\* a Get has read fc.n while a writer waits for the lock
C2_Witness ==
    /\ inst = "fc"
    /\ \E t, u \in Threads :
          /\ pc[t] \in HasReadN
          /\ tmp[t] = stable
          /\ pc[u] \in {"fadd_lock", "fsub_lock", "fset_lock"}

\* C3: at most one goroutine holds fc.mu, mu is locked exactly when one
\* does, and a goroutine at a read or write of fc.n holds it.
C3_MutualExclusion ==
    /\ Cardinality({t \in Threads : pc[t] \in HoldsMu}) <= 1
    /\ fc_mu = 1 <=> \E t \in Threads : pc[t] \in HoldsMu
    /\ \A t \in Threads :
          pc[t] \in {"fadd_load", "fadd_store", "fsub_load", "fsub_store",
                     "fget_load", "fset_store"}
          => /\ fc_mu = 1
             /\ \A u \in Threads \ {t} : pc[u] \notin HoldsMu

C3_Witness ==
    \E t, u \in Threads :
        /\ pc[t] \in {"fadd_store", "fsub_store", "fset_store"}
        /\ pc[u] \in WaitsMu

\* C4: when the last write to the value was Set(n), a Get that returns
\* returns n, for Counter and for FloatCounter.
C4_SetThenGet ==
    [][lastSet # NoSet =>
          \A t \in Threads :
              (Get(t) \/ FloatGetUnlock(t)) => ret' = <<"n", lastSet[1]>>]_vars

C4_Witness ==
    /\ lastSet # NoSet
    /\ ret = <<"n", lastSet[1]>>
    /\ calls = MaxCalls
    /\ Quiescent

\* C5: Dec takes c.n from v to (v - 1) modulo 2^64; from 0 to 2^64 - 1.
C5_DecWraps ==
    [][\A t \in Threads : DecAdd(t) => c_n' = Pred64(c_n)]_vars

C5_Witness ==
    /\ calls = 1
    /\ \E t \in Threads : pc[t] = "dec_now"
    /\ c_n = <<65535, 65535, 65535, 65535>>

\* C6: while one goroutine alone has called the instance, each result of
\* getLastWriteTime is at least the result before it, for Counter and for
\* FloatCounter.
C6_LastWriteTimeNonDecreasing ==
    [][\A t \in Threads :
          ((GetLastWriteTime(t) \/ FloatGetLastWriteTime(t))
              /\ callers \subseteq {t} /\ seen # NotSeen)
          => seen' >= seen]_vars

\* getLastWriteTime returned 1, a later call stored 2: its next result is 2
C6_Witness ==
    /\ callers = {1}
    /\ Quiescent
    /\ seen = 1
    /\ c_lastWriteTime = 2 \/ fc_lastWriteTime = 2

\* C7: when a Counter method that changes n has run with no other goroutine
\* at work, lastWriteTime is a clock reading taken during the call: the
\* reading the method took, which for Inc could be no earlier than the last
\* second the clock had returned.
C7_EveryMutatorStamps ==
    [][\A t \in Threads :
          /\ (Inc(t) /\ OthersIdle(t)) => c_lastWriteTime' >= now
          /\ ((DecStore(t) \/ AddStore(t) \/ AddInt64Store(t) \/ SetStore(t))
                 /\ solo[t])
             => (c_lastWriteTime' = tnow[t] /\ tnow[t] >= 1)]_vars

\* C8: Inc takes c.n from v to (v + 1) modulo 2^64 and leaves lastWriteTime
\* alone; while only Inc and the reading methods have been called,
\* lastWriteTime is 0 and getLastWriteTime has returned nothing but 0.
C8_IncLeavesLastWriteTime ==
    /\ [][\A t \in Threads :
             Inc(t) => (c_n' = Succ64(c_n) /\ c_lastWriteTime' = c_lastWriteTime)]_vars
    /\ []((inst = "c" /\ called \subseteq {"Inc"})
             => (c_lastWriteTime = 0 /\ seen \in {NotSeen, 0}))

C8_Witness ==
    /\ called = {"Inc"}
    /\ calls = MaxCalls
    /\ c_n = <<MaxCalls, 0, 0, 0>>
    /\ ret = <<"lastWriteTime", 0>>

\* C9: Counter.Get returns c.n and changes neither c.n nor lastWriteTime, in
\* every state, whatever the other goroutines are at.
C9_GetIsPure ==
    [][\A t \in Threads :
          Get(t) => /\ ret' = <<"n", c_n>>
                    /\ c_n' = c_n
                    /\ c_lastWriteTime' = c_lastWriteTime]_vars

C9_Witness ==
    /\ ret = <<"n", c_n>>
    /\ c_n # <<0, 0, 0, 0>>
    /\ \E t \in Threads : pc[t] \in {"dec_now", "add_store", "set_now"}

\* C10: no step of FloatCounter.Get changes fc.n, it returns fc.n, and when
\* it ran with no other goroutine at work lastWriteTime is the clock reading
\* it took while holding the lock.
C10_FloatGetStamps ==
    [][inst = "fc" =>
          \A t \in Threads :
              /\ FloatGet(t) => fc_n' = fc_n
              /\ pc[t] \in InFloatGet =>
                    /\ FloatGetLock(t) => fc_n' = fc_n
                    /\ FloatGetLoad(t) => fc_n' = fc_n
                    /\ FloatGetNow(t) => (fc_n' = fc_n /\ fc_mu = 1)
                    /\ FloatGetTs(t) => fc_n' = fc_n
                    /\ FloatGetUnlock(t)
                       => /\ fc_n' = fc_n
                          /\ ret' = <<"n", fc_n>>
                          /\ solo[t] => /\ fc_lastWriteTime' = tnow[t]
                                        /\ tnow[t] >= 1]_vars

\* Get has returned from a FloatCounter whose n was never written after
\* construction, and lastWriteTime is the time of the Get.
C10_Witness ==
    /\ inst = "fc"
    /\ called = {"Get"}
    /\ Quiescent
    /\ ret = <<"n", 0>>
    /\ fc_lastWriteTime = MaxClock

\* C11: under fair scheduling every call that was started returns; nothing
\* returns holding fc.mu (mu is free when no call is under way); a goroutine
\* inside a Counter method can always take its next step, whatever the others
\* are at, and each such step leaves it one step fewer to take.
C11_EveryCallReturns ==
    /\ \A t \in Threads : (pc[t] # "idle") ~> (pc[t] = "idle")
    /\ [](Quiescent => fc_mu = 0)
    /\ [](\A t \in Threads : pc[t] \in InCounterOp => ENABLED CounterStep(t))
    /\ [][\A t \in Threads :
             (pc[t] \in InCounterOp /\ pc'[t] # pc[t])
             => StepsLeft(pc'[t]) = StepsLeft(pc[t]) - 1]_vars

\* a goroutine waits in Lock while another is about to release the mutex
C11_Witness ==
    /\ inst = "fc"
    /\ fc_mu = 1
    /\ \E t, u \in Threads : pc[t] \in WaitsMu /\ pc[u] \in AtUnlock

\* ch is one of the ten decimal digits
IsDigit(ch) == \E d \in 1..10 : DecimalDigits[d] = ch
DigitValue(ch) == (CHOOSE d \in 1..10 : DecimalDigits[d] = ch) - 1

\* (a * 10 + d) modulo 2^64, limb by limb from limb i with carry d
RECURSIVE TimesTenPlus(_, _, _)
TimesTenPlus(a, i, d) ==
    IF i > 4 THEN <<>>
    ELSE LET p == a[i] * 10 + d
         IN  <<p % 65536>> \o TimesTenPlus(a, i + 1, p \div 65536)

\* the uint64 that the decimal digits str[i..] denote after acc
RECURSIVE ParseDecimal(_, _, _)
ParseDecimal(str, i, acc) ==
    IF i > Len(str) THEN acc
    ELSE ParseDecimal(str, i + 1,
                      TimesTenPlus(acc, 1, DigitValue(SubSeq(str, i, i))))

\* C12: Counter.marshalTo takes its value from c.n as Get loads it, changes
\* nothing in c, and writes one line: the prefix, a space, decimal digits
\* only (no sign, no leading zero) that denote that value, and a newline;
\* "foo 42\n" for 42 with prefix "foo", and 2^64 - 1 in full.
C12_MarshalLine ==
    [][\A t \in Threads :
          /\ (\E p \in Prefixes : MarshalGet(t, p))
             => (tmp'[t] = c_n /\ c_n' = c_n
                 /\ c_lastWriteTime' = c_lastWriteTime)
          /\ MarshalFmt(t) =>
                LET line == ret'[2]
                    k == Len(arg[t])
                    body == SubSeq(line, k + 2, Len(line) - 1)
                IN  /\ ret'[1] = "w"
                    /\ Len(line) >= k + 3
                    /\ Len(body) <= 20
                    /\ SubSeq(line, 1, k) = arg[t]
                    /\ SubSeq(line, k + 1, k + 1) = " "
                    /\ SubSeq(line, Len(line), Len(line)) = "\n"
                    /\ \A i \in 1..Len(body) : IsDigit(SubSeq(body, i, i))
                    /\ Len(body) > 1 => SubSeq(body, 1, 1) # "0"
                    /\ ParseDecimal(body, 1, <<0, 0, 0, 0>>) = tmp[t]
                    /\ (arg[t] = "foo" /\ tmp[t] = <<42, 0, 0, 0>>)
                       => line = "foo 42\n"
                    /\ (arg[t] = "foo" /\ tmp[t] = <<65535, 65535, 65535, 65535>>)
                       => line = "foo 18446744073709551615\n"
                    /\ c_n' = c_n
                    /\ c_lastWriteTime' = c_lastWriteTime]_vars

\* a Counter at 0 was decremented once and then marshalled
C12_Witness ==
    /\ inst = "c"
    /\ sumDeltas = 0 - 1
    /\ c_n = <<65535, 65535, 65535, 65535>>
    /\ ret = <<"w", "foo 18446744073709551615\n">>

\* C13: on a Counter, under any interleaving of Dec, Add, AddInt64 and Set,
\* lastWriteTime never decreases from a state to the next, and when all the
\* calls have returned it is the latest reading of the clock any of them
\* took.
C13_LastWriteTimeMonotonic ==
    /\ [][inst = "c" => c_lastWriteTime' >= c_lastWriteTime]_vars
    /\ []((inst = "c" /\ Quiescent /\ called \cap {"add", "Set"} # {})
             => c_lastWriteTime = now)

\* (v + k) modulo 2^64 for a signed k, one step at a time
RECURSIVE Shift64(_, _)
Shift64(v, k) ==
    IF k = 0 THEN v
    ELSE IF k > 0 THEN Shift64(Succ64(v), k - 1)
    ELSE Shift64(Pred64(v), k + 1)

\* C14: the value of a Counter is what the operations give when applied one
\* after the other, each at one moment between its call and its return:
\* n when Set(n) came last, n plus the deltas added since (modulo 2^64) when
\* adds came after Set(n); a Get that returns gives the value of that moment.
\* After Set(n) and one add of d have both returned the value is n or n + d.
C14_Linearizable ==
    inst = "c" =>
        /\ lastSet # NoSet => c_n = lastSet[1]
        /\ (lastSet = NoSet /\ "Set" \in called)
           => \E n \in SetArgs : c_n = Shift64(n, sumDeltas)
        /\ (ret # <<>> /\ ret[1] = "n") => ret[2] = c_n
        /\ (Quiescent /\ calls = 2 /\ "Set" \in called /\ called # {"Set"})
           => \E n \in SetArgs :
                 \/ c_n = n /\ lastSet = <<n>>
                 \/ \E d \in Deltas \cup {1} :
                        c_n = Shift64(n, d) /\ sumDeltas = d

\* Set(7) and Add(2) are both under way, the add having come second
C14_Witness ==
    /\ inst = "c"
    /\ \E t, u \in Threads :
          /\ pc[t] \in {"set_now", "set_store"}
          /\ pc[u] \in {"add_now", "add_store"}
    /\ lastSet = NoSet
    /\ c_n = <<9, 0, 0, 0>>

\* What the call of goroutine t has yet to add to fc.n.
Pending(t) ==
    IF pc[t] \in {"fadd_lock", "fadd_load", "fadd_store"} THEN arg[t]
    ELSE IF pc[t] \in {"fsub_lock", "fsub_load", "fsub_store"} THEN 0 - arg[t]
    ELSE 0

RECURSIVE SumPending(_)
SumPending(t) == IF t = 0 THEN 0 ELSE Pending(t) + SumPending(t - 1)

\* C15: while Set is not called on a FloatCounter that started at 0, fc.n and
\* what the calls under way have yet to add make the sum of the a of all Add
\* calls minus the s of all Sub calls; so fc.n is that sum once all calls
\* have returned, and so is what a Get then returns.  At the store of
\* fc.n += n and fc.n -= n, fc.n is still the value the goroutine loaded.
C15_NoFloatUpdateLost ==
    (inst = "fc" /\ "Set" \notin called) =>
        /\ fc_n + SumPending(NumThreads) = sumDeltas
        /\ Quiescent => fc_n = sumDeltas
        /\ (Quiescent /\ ret # <<>> /\ ret[1] = "n") => ret[2] = sumDeltas
        /\ \A t \in Threads :
              pc[t] \in {"fadd_store", "fsub_store"} => tmp[t] = fc_n

\* two goroutines have added 1 and 2 and returned
C15_Witness ==
    /\ inst = "fc"
    /\ called = {"add"}
    /\ Quiescent
    /\ Cardinality(callers) = 2
    /\ calls = 2
    /\ fc_n = 3

\* C16: Add(n) and AddInt64(n) take c.n from v to (v + n) modulo 2^64, for
\* negative n too: Add(-1) does what Dec does, adding -n next gives v back;
\* the method stores the clock reading it took into lastWriteTime, which is
\* the time of the call when it ran with no other goroutine at work.  On
\* every value an Add finds, adding uint64(k) is adding k modulo 2^64 for the
\* small k of both signs.
C16_AddSigned ==
    [][inst = "c" =>
          \A t \in Threads :
              /\ (pc[t] = "idle" /\ pc'[t] \in {"add_now", "addint64_now"})
                 => \A n \in Deltas :
                       (AddAdd(t, n) \/ AddInt64Add(t, n))
                       => /\ c_n' = Shift64(c_n, n)
                          /\ n = 0 - 1 => c_n' = Pred64(c_n)
                          /\ AddUint64(c_n', Uint64(0 - n)) = c_n
                          /\ \A k \in (0 - 3)..3 :
                                AddUint64(c_n, Uint64(k)) = Shift64(c_n, k)
              /\ pc[t] \in {"add_now", "addint64_now"}
                 => ((AddNow(t) \/ AddInt64Now(t)) => tnow'[t] = now')
              /\ pc[t] \in {"add_store", "addint64_store"}
                 => ((AddStore(t) \/ AddInt64Store(t))
                     => /\ c_lastWriteTime' = tnow[t]
                        /\ tnow[t] >= 1
                        /\ solo[t] => c_lastWriteTime' = now)]_vars

\* after Inc, an Add(-1) or AddInt64(-1) under way has taken c.n back to 0
C16_Witness ==
    /\ inst = "c"
    /\ called = {"Inc", "add"}
    /\ \E t \in Threads :
          pc[t] \in {"add_now", "add_store", "addint64_now", "addint64_store"}
    /\ c_n = <<0, 0, 0, 0>>

\* Labels of a goroutine between time.Now().Unix() and the store of the
\* reading into fc.lastWriteTime.
AtTs == {"fadd_ts", "fsub_ts", "fget_ts", "fset_ts"}
\* Labels of a goroutine about to read the clock in a FloatCounter method.
AtNow == {"fadd_now", "fsub_now", "fget_now", "fset_now"}

\* C17: under any interleaving of Add, Sub, Get and Set, lastWriteTime of a
\* FloatCounter never decreases from a state to the next, and neither do the
\* results of getLastWriteTime, whoever calls it; the clock is read and the
\* reading stored by the goroutine that holds mu, and the reading waiting to
\* be stored is the latest the clock gave.
C17_FloatLastWriteTimeMonotonic ==
    /\ [][inst = "fc" => fc_lastWriteTime' >= fc_lastWriteTime]_vars
    /\ [][\A t \in Threads :
             (FloatGetLastWriteTime(t) /\ seen # NotSeen) => seen' >= seen]_vars
    /\ [](inst = "fc" =>
             /\ fc_lastWriteTime <= now
             /\ \A t \in Threads :
                   /\ pc[t] \in AtNow \cup AtTs
                      => (fc_mu = 1 /\ \A u \in Threads \ {t} : pc[u] \notin HoldsMu)
                   /\ pc[t] \in AtTs => tnow[t] = now)

\* a second goroutine holds mu with the reading 2 to store over the 1 that
\* the first left
C17_Witness ==
    /\ inst = "fc"
    /\ Cardinality(callers) = 2
    /\ fc_lastWriteTime = 1
    /\ \E t \in Threads : pc[t] \in AtTs /\ tnow[t] = 2

\* What the one writing call made so far makes of a Counter that was 0.
OneCallResult ==
    IF lastSet # NoSet THEN lastSet[1] ELSE Shift64(<<0, 0, 0, 0>>, sumDeltas)

\* C18: Dec, Add, AddInt64 and Set change c.n in one step, which leaves
\* lastWriteTime alone, and store lastWriteTime in a later step, which leaves
\* c.n alone.  When one writing call has been made (so one goroutine writes)
\* and its timestamp is in lastWriteTime, c.n is what the call makes of it,
\* and that is what a Get returns to a reader that getLastWriteTime gave the
\* timestamp to.
C18_ValueBeforeTimestamp ==
    /\ [][inst = "c" =>
             \A t \in Threads :
                 /\ (pc[t] = "idle" /\ pc'[t] # "idle")
                    => ((DecAdd(t)
                           \/ (\E n \in Deltas : AddAdd(t, n) \/ AddInt64Add(t, n))
                           \/ (\E n \in SetArgs : SetStoreN(t, n)))
                        => (c_lastWriteTime' = c_lastWriteTime
                            /\ pc'[t] \in InCounterOp))
                 /\ pc[t] \in {"dec_store", "add_store", "addint64_store",
                               "set_store"}
                    => ((DecStore(t) \/ AddStore(t) \/ AddInt64Store(t)
                           \/ SetStore(t))
                        => c_n' = c_n)
                 /\ (calls = 1 /\ seen >= 1)
                    => (Get(t) => ret' = <<"n", OneCallResult>>)]_vars
    /\ []((inst = "c" /\ calls = 1 /\ c_lastWriteTime >= 1)
             => (c_n = OneCallResult /\ c_n # <<0, 0, 0, 0>>))

\* the reverse: Dec has changed c.n and not yet stored the time; a reader
\* that got the old timestamp 0 has got the new value from Get
C18_Witness ==
    /\ inst = "c"
    /\ calls = 1
    /\ \E t \in Threads : pc[t] = "dec_store"
    /\ c_lastWriteTime = 0
    /\ seen = 0
    /\ ret = <<"n", <<65535, 65535, 65535, 65535>>>>

\* The calls of Add, Sub, Get and Set that have stored their timestamp.
StampedCalls ==
    calls - Cardinality({t \in Threads : pc[t] \notin {"idle"} \cup AtUnlock})

\* C19: a goroutine in no call can run FloatCounter.getLastWriteTime whether
\* mu is held or not; the call is one step, which leaves mu, n and
\* lastWriteTime as they are and returns lastWriteTime; lastWriteTime is
\* changed by the timestamp stores of Add, Sub, Get and Set only, so what is
\* returned is 0 or the reading the last such store stored, and is not 0
\* only when a call has made that store.
C19_GetLastWriteTimeLockFree ==
    /\ [](\A t \in Threads :
             MayCall(t, "fc") => ENABLED FloatGetLastWriteTime(t))
    /\ [][\A t \in Threads :
             FloatGetLastWriteTime(t)
             => /\ pc'[t] = "idle"
                /\ fc_mu' = fc_mu
                /\ fc_n' = fc_n
                /\ fc_lastWriteTime' = fc_lastWriteTime
                /\ ret' = <<"lastWriteTime", fc_lastWriteTime>>]_vars
    /\ [][fc_lastWriteTime' # fc_lastWriteTime
             => \E t \in Threads :
                   /\ pc[t] \in AtTs
                   /\ pc'[t] \in AtUnlock
                   /\ fc_lastWriteTime' = tnow[t]]_vars
    /\ []((inst = "fc" /\ ret # <<>> /\ ret[1] = "lastWriteTime")
             => /\ ret[2] = fc_lastWriteTime
                /\ ret[2] \in 0..now
                /\ ret[2] # 0 => StampedCalls >= 1)

\* getLastWriteTime has returned the timestamp of an earlier call while
\* another goroutine holds mu
C19_Witness ==
    /\ inst = "fc"
    /\ fc_mu = 1
    /\ \E t \in Threads : pc[t] \in HoldsMu \ AtUnlock
    /\ ret = <<"lastWriteTime", 1>>

\* C20: no step of marshalTo changes the value, of a Counter or of a
\* FloatCounter; Counter.marshalTo leaves lastWriteTime alone, while
\* FloatCounter.marshalTo stores into it the reading the clock gives during
\* the call.  After marshalTo calls alone, a Counter's lastWriteTime is what
\* it was before them, and a FloatCounter's, once they have returned, is the
\* latest reading of the clock, which the last marshalTo took.
C20_MarshalSideEffects ==
    /\ [][\A t \in Threads :
             /\ ((\E p \in Prefixes : MarshalGet(t, p)) \/ MarshalFmt(t))
                => (c_n' = c_n /\ c_lastWriteTime' = c_lastWriteTime)
             /\ ((\E p \in Prefixes : FloatMarshal(t, p))
                    \/ FloatMarshalLock(t) \/ FloatMarshalLoad(t)
                    \/ FloatMarshalNow(t) \/ FloatMarshalTs(t)
                    \/ FloatMarshalUnlock(t) \/ FloatMarshalFmt(t))
                => fc_n' = fc_n
             /\ FloatMarshalTs(t)
                => (fc_lastWriteTime' = tnow[t] /\ tnow[t] = now)]_vars
    /\ []((inst = "c" /\ called \subseteq {"marshalTo"})
             => c_lastWriteTime = seen)
    /\ []((inst = "fc" /\ called = {"marshalTo"} /\ Quiescent)
             => (fc_lastWriteTime = now /\ fc_n = stable))

\* a FloatCounter at -2 stamped 1 was marshalled twice, last at second 2
C20_Witness ==
    /\ inst = "fc"
    /\ called = {"marshalTo"}
    /\ Quiescent
    /\ calls = 2
    /\ seen = 1
    /\ fc_lastWriteTime = 2
    /\ ret = <<"w", "foo -2\n">>
====
